---- MODULE Spec2Model ----
(***************************************************************************)
(* Model of extract-from-repos.py: the playlist extractor that aggregates  *)
(* one static catalog and two paginated catalogs into an M3U file.         *)
(*                                                                         *)
(* Text is modelled as a sequence of chunks.  A chunk is a TLA+ string     *)
(* standing for the literal characters it spells ("t", "1", "tmdb.org",    *)
(* "tvg-id=\"", a line break "\n", ...).  Concatenation, prefix tests,     *)
(* replacement, substring search and line splitting work on these          *)
(* sequences, so formatting is never the identity.                         *)
(*                                                                         *)
(* A JSON field value is a record [k, s]: k is "absent" (key missing),     *)
(* "null", "str" or "num", and s is its text.                              *)
(***************************************************************************)
EXTENDS Naturals, Sequences, FiniteSets, TLC

VARIABLES
    item,                 \* create_extinf: the item argument
    content_type,         \* create_extinf: the content_type argument
    extinf,               \* create_extinf: what the call produced
    world,                \* the remote documents of this run
    pc,                   \* position of main()
    all_entries,          \* main: all_entries
    movie_count,          \* main: movie_count
    series_count,         \* main: series_count
    domaci_movie_count,   \* main: domaci_movie_count
    domaci_series_count,  \* main: domaci_series_count
    skip,                 \* main: skip
    metas,                \* main: metas of the page being walked
    pos,                  \* main: position of `for meta in metas`
    unique_entries,       \* main: unique_entries
    file,                 \* text written to output_file
    stats,                \* the numbers of the statistics block
    requests,             \* the requests for the static catalog and for catalog pages, in order
    last                  \* the latest step of `for meta in metas`: the outcomes its
                          \* fetches met (the metadata's, then one per stream list),
                          \* the requests it made and the entries it appended

extinf_vars == <<item, content_type, extinf>>
main_vars == <<world, pc, all_entries, movie_count, series_count,
               domaci_movie_count, domaci_series_count, skip, metas, pos,
               unique_entries, file, stats, requests, last>>
vars == <<extinf_vars, main_vars>>

----------------------------------------------------------------------------
(* Bounds of the model *)

MaxIdLen == 5
MaxItems == 2
MaxPages == 2

----------------------------------------------------------------------------
(* Text and JSON values *)

Absent == [k |-> "absent", s |-> <<>>]
Null == [k |-> "null", s |-> <<>>]
Str(s) == [k |-> "str", s |-> s]
Num(s) == [k |-> "num", s |-> s]

Digit == {"0", "1", "2", "3", "4", "5", "6", "7", "8", "9"}

\* Python truthiness of a field value: None, "" and 0 are falsy.
Truthy(v) ==
    \/ v.k = "str" /\ v.s # <<>>
    \/ v.k = "num" /\ v.s # <<"0">>

\* str(v) as an f-string renders it.
Fmt(v) == IF v.k = "null" THEN <<"None">> ELSE v.s

RECURSIVE Flatten(_)
Flatten(ss) == IF ss = <<>> THEN <<>> ELSE Head(ss) \o Flatten(Tail(ss))

\* sep.join(parts)
RECURSIVE Join(_, _)
Join(parts, sep) ==
    IF parts = <<>> THEN <<>>
    ELSE IF Len(parts) = 1 THEN parts[1]
    ELSE parts[1] \o sep \o Join(Tail(parts), sep)

\* needle in text
Contains(text, needle) ==
    \E i \in 1..(Len(text) + 1 - Len(needle)) :
        SubSeq(text, i, i + Len(needle) - 1) = needle

\* All sequences over S of length at most n.
SeqUpTo(S, n) == UNION {[1..m -> S] : m \in 0..n}

----------------------------------------------------------------------------
(* extract_tmdb_from_poster *)

\* Last index of the run of digits of s that starts at i (i - 1 when s[i] is no digit).
RECURSIVE DigitRunEnd(_, _)
DigitRunEnd(s, i) ==
    IF i <= Len(s) /\ s[i] \in Digit THEN DigitRunEnd(s, i + 1) ELSE i - 1

\* re.search(r'/(\d+)\.jpg', s) matches at i.
MatchAt(s, i) ==
    /\ s[i] = "/"
    /\ DigitRunEnd(s, i + 1) >= i + 1
    /\ DigitRunEnd(s, i + 1) + 1 <= Len(s)
    /\ s[DigitRunEnd(s, i + 1) + 1] = ".jpg"

extract_tmdb_from_poster(poster_url) ==
    IF ~Truthy(poster_url) \/ ~Contains(poster_url.s, <<"tmdb.org">>) THEN Null
    ELSE LET hits == {i \in 1..Len(poster_url.s) : MatchAt(poster_url.s, i)}
         IN  IF hits = {} THEN Null
             ELSE LET i == CHOOSE h \in hits : \A g \in hits : h <= g
                  IN  Str(SubSeq(poster_url.s, i + 1, DigitRunEnd(poster_url.s, i + 1)))

----------------------------------------------------------------------------
(* create_extinf *)

startswith(s, prefix) ==
    Len(s) >= Len(prefix) /\ SubSeq(s, 1, Len(prefix)) = prefix

isdigit(s) == s # <<>> /\ \A i \in 1..Len(s) : s[i] \in Digit

\* s.replace('tt', ''): every non-overlapping occurrence, left to right.
RECURSIVE replace_tt(_)
replace_tt(s) ==
    IF s = <<>> THEN <<>>
    ELSE IF startswith(s, <<"t", "t">>) THEN replace_tt(SubSeq(s, 3, Len(s)))
    ELSE <<Head(s)>> \o replace_tt(Tail(s))

\* item['id'].startswith(...) on a truthy value that is no string raises.
IdRaises(it) == Truthy(it.id) /\ it.id.k # "str"

\* tmdb_id of create_extinf (lines 36-40).
TmdbId(it) ==
    IF Truthy(it.id) /\ (startswith(it.id.s, <<"t", "t">>) \/ isdigit(it.id.s))
    THEN Str(replace_tt(it.id.s))
    ELSE IF Truthy(it.poster) THEN extract_tmdb_from_poster(it.poster)
    ELSE Null

\* name = item.get('name', 'Unknown')
NameOf(it) == IF it.name.k = "absent" THEN <<"Unknown">> ELSE Fmt(it.name)

GroupOf(ctype) == IF ctype = "series" THEN "Series" ELSE "Movies"

TitleOf(it) ==
    IF Truthy(it.year) THEN NameOf(it) \o <<" (">> \o Fmt(it.year) \o <<")">>
    ELSE NameOf(it)

\* The list `parts` at the return statement.
PartsOf(it, ctype) ==
    << <<"#EXTINF:-1">> >>
    \o (IF Truthy(TmdbId(it))
        THEN << <<"tvg-id=\"">> \o TmdbId(it).s \o <<"\"">> >> ELSE <<>>)
    \o << <<"tvg-name=\"">> \o NameOf(it) \o <<"\"">> >>
    \o (IF Truthy(it.poster)
        THEN << <<"tvg-logo=\"">> \o Fmt(it.poster) \o <<"\"">> >> ELSE <<>>)
    \o << <<"group-title=\"", GroupOf(ctype), "\"">> >>

\* create_extinf(item, content_type): the header text, or the exception.
create_extinf(it, ctype) ==
    IF IdRaises(it)
    THEN [raised |-> TRUE, parts |-> <<>>, text |-> <<>>]
    ELSE [raised |-> FALSE,
          parts |-> PartsOf(it, ctype),
          text |-> Join(PartsOf(it, ctype), <<" ">>) \o <<", ">> \o TitleOf(it)]

----------------------------------------------------------------------------
(* The remote documents.  Catalog items, as the upstream JSON carries them. *)

\* A stream record {"url": ...}; dict = FALSE is a record that is no JSON object.
Stream(u) == [dict |-> TRUE, url |-> u]
Url(u) == Stream(Str(<<u>>))
NoUrlStream == Stream(Absent)
EmptyUrlStream == Stream(Str(<<>>))
NonDictStream == [dict |-> FALSE, url |-> Absent]

NoList == [k |-> "absent", v |-> <<>>]
List(v) == [k |-> "list", v |-> v]

P_tt == [id |-> Str(<<"t", "t", "1">>), name |-> Str(<<"A">>),
         poster |-> Absent, year |-> Str(<<"1999">>)]
P_plain == [id |-> Absent, name |-> Str(<<"B">>),
            poster |-> Str(<<"http://", "x.org", "/", "5", ".jpg">>), year |-> Absent]
P_poster == [id |-> Str(<<"a", "1">>), name |-> Str(<<"C">>),
             poster |-> Str(<<"http://", "tmdb.org", "/", "5", "0", ".jpg">>),
             year |-> Num(<<"2001">>)]
P_numid == [id |-> Num(<<"7">>), name |-> Str(<<"D">>),
            poster |-> Absent, year |-> Absent]
P_newline == [id |-> Absent, name |-> Str(<<"E", "\n", "F">>),
              poster |-> Absent, year |-> Absent]
P_inject == [id |-> Absent,
             name |-> Str(<<"G", "\"", " ", "group-title=\"", "Series">>),
             poster |-> Absent, year |-> Absent]
P_inject_id == [id |-> Absent,
                name |-> Str(<<"H", "\"", " ", "tvg-id=\"", "9">>),
                poster |-> Absent, year |-> Absent]

\* A record of the static catalog: the profile's fields, category and streams.
BaubauItem(p, category, streams) ==
    [id |-> p.id, name |-> p.name, poster |-> p.poster, year |-> p.year,
     category |-> category, streams |-> streams]

Cat(c) == Str(<<c>>)

BaubauItems ==
    { BaubauItem(P_tt, Cat("EX YU FILMOVI"), List(<<Url("u1"), Url("u2")>>)),
      BaubauItem(P_plain, Cat("KLASICI"), List(<<Url("u1")>>)),
      BaubauItem(P_poster, Cat("Drugo"), List(<<Url("u3")>>)),
      BaubauItem(P_poster, Absent, List(<<Url("u3")>>)),
      BaubauItem(P_poster, Cat("ex yu filmovi"), List(<<Url("u3")>>)),
      BaubauItem(P_poster, Cat("Bela Ladja"), NoList),
      BaubauItem(P_poster, Cat("Bela Ladja"), List(<<>>)),
      BaubauItem(P_poster, Cat("Slatke Muke"), List(<<EmptyUrlStream, Url("u3")>>)),
      BaubauItem(P_newline, Cat("KLIK PREMIJERA"), List(<<Url("u4")>>)),
      BaubauItem(P_inject, Cat("KLIK PREMIJERA"), List(<<Url("u5")>>)),
      BaubauItem(P_tt, Cat("EXYU SERIJE"), List(<<Url("u2"), NoUrlStream>>)),
      BaubauItem(P_numid, Cat("EXYU SERIJE"), List(<<Url("u2")>>)) }

BaubauSeriesLists ==
    { <<>>,
      << BaubauItem(P_tt, Absent, List(<<Url("u2"), Url("u6")>>)) >>,
      << BaubauItem(P_plain, Cat("Drugo"), NoList),
         BaubauItem(P_inject_id, Absent, List(<<Url("u6")>>)) >> }

None == [k |-> "none"]

BaubauDoc(movies, series) == [k |-> "doc", movies |-> movies, series |-> series]

EmptyBaubau == BaubauDoc(<<>>, <<>>)

\* A reference of a catalog page; dict = FALSE is an entry that is no JSON object.
Ref(id) == [dict |-> TRUE, id |-> Str(<<id>>)]
NoIdRef == [dict |-> TRUE, id |-> Absent]
EmptyIdRef == [dict |-> TRUE, id |-> Str(<<>>)]
NonDictRef == [dict |-> FALSE, id |-> Absent]

\* A catalog page {"metas": [...]}; NoMetasPage carries no metas key.
Page(refs) == [k |-> "doc", has_metas |-> TRUE, metas |-> refs]
NoMetasPage == [k |-> "doc", has_metas |-> FALSE, metas |-> <<>>]

\* A page of fifty references whose metadata document carries no meta record.
Page50 == Page([i \in 1..50 |-> Ref("m3")])

MoviePages ==
    { Page(<<Ref("m1"), Ref("m2")>>),
      Page(<<Ref("m3"), Ref("m5"), Ref("m4")>>),
      Page(<<Ref("m7"), Ref("m6"), EmptyIdRef, NoIdRef, Ref("m8")>>),
      Page(<<NonDictRef, Ref("m1")>>),
      Page(<<>>),
      NoMetasPage,
      Page50 }

SeriesPages ==
    { Page(<<Ref("s1")>>),
      Page(<<Ref("s2"), Ref("s3")>>),
      Page(<<Ref("s4"), Ref("s5"), Ref("s6"), Ref("s7")>>),
      Page(<<NonDictRef>>),
      Page(<<>>),
      NoMetasPage }

\* A video stub of a series record.
Video(id) == [dict |-> TRUE, id |-> Str(<<id>>)]
NoIdVideo == [dict |-> TRUE, id |-> Absent]
NonDictVideo == [dict |-> FALSE, id |-> Absent]

MetaItem(p, videos) ==
    [id |-> p.id, name |-> p.name, poster |-> p.poster, year |-> p.year,
     videos |-> videos]

\* {"meta": {...}}; NoMetaDoc carries no meta key.
MetaDoc(it) == [k |-> "doc", has_meta |-> TRUE, meta |-> it]
NoMetaDoc == [k |-> "doc", has_meta |-> FALSE, meta |-> MetaItem(P_plain, NoList)]

\* {"streams": [...]}; NoStreamsDoc carries no streams key.
StreamsDoc(streams) == [k |-> "doc", has_streams |-> TRUE, streams |-> streams]
NoStreamsDoc == [k |-> "doc", has_streams |-> FALSE, streams |-> <<>>]

\* What the metadata endpoint serves for /meta/<kind>/<id>.json.
ServerMeta(id) ==
    CASE id = "m1" -> MetaDoc(MetaItem(P_tt, NoList))
      [] id = "m2" -> MetaDoc(MetaItem(P_plain, NoList))
      [] id = "m3" -> NoMetaDoc
      [] id = "m4" -> MetaDoc(MetaItem(P_numid, NoList))
      [] id = "m5" -> MetaDoc(MetaItem(P_poster, NoList))
      [] id = "m6" -> MetaDoc(MetaItem(P_poster, NoList))
      [] id = "m7" -> MetaDoc(MetaItem(P_poster, NoList))
      [] id = "m8" -> MetaDoc(MetaItem(P_inject, NoList))
      [] id = "s1" -> MetaDoc(MetaItem(P_tt, List(<<Video("e1"), Video("e2")>>)))
      [] id = "s2" -> MetaDoc(MetaItem(P_plain, List(<<NonDictVideo, Video("e1")>>)))
      [] id = "s3" -> MetaDoc(MetaItem(P_poster,
                          List(<<Video("e1"), Video("e3"), Video("e2")>>)))
      [] id = "s4" -> MetaDoc(MetaItem(P_plain, List(<<NoIdVideo, Video("e4")>>)))
      [] id = "s5" -> MetaDoc(MetaItem(P_plain, NoList))
      [] id = "s6" -> NoMetaDoc
      [] id = "s7" -> MetaDoc(MetaItem(P_numid, List(<<Video("e1")>>)))
      [] OTHER -> NoMetaDoc

\* What the stream endpoint serves for /stream/<kind>/<id>.json.
ServerStreams(id) ==
    CASE id = "m1" -> StreamsDoc(<<Url("u1"), Url("u2")>>)
      [] id = "m2" -> StreamsDoc(<<Url("u1")>>)
      [] id = "m4" -> StreamsDoc(<<Url("u3")>>)
      [] id = "m5" -> StreamsDoc(<<EmptyUrlStream, NoUrlStream, Url("u3")>>)
      [] id = "m6" -> NoStreamsDoc
      [] id = "m7" -> StreamsDoc(<<Url("u2"), NonDictStream, Url("u3")>>)
      [] id = "m8" -> StreamsDoc(<<Url("u7")>>)
      [] id = "e1" -> StreamsDoc(<<Url("u4")>>)
      [] id = "e2" -> StreamsDoc(<<Url("u5"), Url("u1")>>)
      [] id = "e3" -> StreamsDoc(<<NonDictStream>>)
      [] id = "e4" -> StreamsDoc(<<NoUrlStream, Url("u6")>>)
      [] OTHER -> StreamsDoc(<<>>)

----------------------------------------------------------------------------
(* fetch_json and the three adapters of main() *)

PageSize == 100

\* fetch_json gone wrong: the failure leaves the function as an exception.
fetch_json_Raises(resp) == IF resp.ok THEN resp.doc ELSE [k |-> "raise"]

\* fetch_json(url): resp is what urlopen and json.loads meet, ok = FALSE when
\* either raises.  Every exception is caught and None is returned.
fetch_json(resp) == IF resp.ok THEN resp.doc ELSE None

\* One urlopen: the endpoint, the identifier or the page cursor in its URL, and
\* whether it and the decoding succeeded.
Req(kind, id, s, ok) == [kind |-> kind, id |-> id, skip |-> s, ok |-> ok]

\* The text of a truthy identifier, as the f-string puts it into the URL.
Key(v) == v.s[1]

domestic_categories ==
    { <<"EX YU FILMOVI">>, <<"EX YU SERIJE">>, <<"EXYU SERIJE">>,
      <<"EXYU SERIJE KOJE SE EMITUJU">>, <<"KLIK PREMIJERA">>, <<"KLASICI">>,
      <<"FILMSKI KLASICI">>, <<"Bolji Zivot">>, <<"Bela Ladja">>,
      <<"Policajac Sa Petlovog Brda">>, <<"Slatke Muke">> }

\* The tuple (extinf, url) appended to all_entries.  Its third component is
\* bookkeeping the program does not keep: the arguments the header was built
\* from (the grouping label, and whether a tvg-id field was emitted).
Entry(it, ctype, url) ==
    << create_extinf(it, ctype).text, Fmt(url),
       [group |-> GroupOf(ctype), tvg |-> Truthy(TmdbId(it))] >>

NoEntries == [raised |-> FALSE, entries |-> <<>>]
Raised == [raised |-> TRUE, entries |-> <<>>]

\* The inner loop of the static adapter (lines 99-101, 108-110): no guard on
\* the url key, no try block.
RECURSIVE StreamEntries(_, _, _)
StreamEntries(it, ctype, streams) ==
    IF streams = <<>> THEN NoEntries
    ELSE IF \/ create_extinf(it, ctype).raised
            \/ ~Head(streams).dict
            \/ Head(streams).url.k = "absent"
         THEN Raised
         ELSE LET rest == StreamEntries(it, ctype, Tail(streams))
              IN  [raised |-> rest.raised,
                   entries |-> <<Entry(it, ctype, Head(streams).url)>> \o rest.entries]

HasStreams(it) == it.streams.k = "list" /\ it.streams.v # <<>>

\* InDomestic gone wrong: any category passes the filter.
InDomestic_AnyCategory(it) == it.category.k = "str"

\* movie.get('category') not in domestic_categories
InDomestic(it) == it.category.k = "str" /\ it.category.s \in domestic_categories

\* for movie in baubau_data.get('movies', []) (lines 92-102)
RECURSIVE MoviesLoop(_)
MoviesLoop(movies) ==
    IF movies = <<>> THEN [raised |-> FALSE, entries |-> <<>>, count |-> 0]
    ELSE LET movie == Head(movies)
             own == IF InDomestic(movie) /\ HasStreams(movie)
                    THEN StreamEntries(movie, "movie", movie.streams.v)
                    ELSE NoEntries
         IN  IF own.raised THEN [raised |-> TRUE, entries |-> <<>>, count |-> 0]
             ELSE LET rest == MoviesLoop(Tail(movies))
                  IN  [raised |-> rest.raised,
                       entries |-> own.entries \o rest.entries,
                       count |-> rest.count
                           + (IF InDomestic(movie) /\ HasStreams(movie) THEN 1 ELSE 0)]

\* for series in baubau_data.get('series', []) (lines 105-111)
RECURSIVE SeriesLoop(_)
SeriesLoop(series) ==
    IF series = <<>> THEN [raised |-> FALSE, entries |-> <<>>, count |-> 0]
    ELSE LET own == IF HasStreams(Head(series))
                    THEN StreamEntries(Head(series), "series", Head(series).streams.v)
                    ELSE NoEntries
         IN  IF own.raised THEN [raised |-> TRUE, entries |-> <<>>, count |-> 0]
             ELSE LET rest == SeriesLoop(Tail(series))
                  IN  [raised |-> rest.raised,
                       entries |-> own.entries \o rest.entries,
                       count |-> rest.count + (IF HasStreams(Head(series)) THEN 1 ELSE 0)]

\* What the catalog endpoint serves for skip = s: the pages of the catalog in
\* order, and an empty metas list beyond the last one.
ServerPage(pages, s) ==
    IF s % PageSize = 0 /\ s \div PageSize < Len(pages)
    THEN pages[s \div PageSize + 1]
    ELSE Page(<<>>)

\* not (not page or not page.get('metas')), lines 123 and 168
HasMetas(page) == page.k = "doc" /\ page.has_metas /\ page.metas # <<>>

\* for stream in stream_data['streams']: if stream.get('url'): ... (lines
\* 149-152, 197-200).  An exception ends the loop; what was appended stays.
RECURSIVE UrlEntries(_, _, _)
UrlEntries(it, ctype, streams) ==
    IF streams = <<>> THEN NoEntries
    ELSE IF ~Head(streams).dict THEN Raised
    ELSE IF ~Truthy(Head(streams).url) THEN UrlEntries(it, ctype, Tail(streams))
    ELSE IF create_extinf(it, ctype).raised THEN Raised
    ELSE LET rest == UrlEntries(it, ctype, Tail(streams))
         IN  [raised |-> rest.raised,
              entries |-> <<Entry(it, ctype, Head(streams).url)>> \o rest.entries]

\* stream_data and stream_data.get('streams')
StreamsOf(stream_data) ==
    IF stream_data.k = "doc" /\ stream_data.has_streams THEN stream_data.streams
    ELSE <<>>

\* The try block of the movie adapter (lines 137-154) for one reference with a
\* truthy id: whatever is raised inside is swallowed.
MovieTry(meta_id, ok1, ok2) ==
    LET meta_detail == fetch_json([ok |-> ok1, doc |-> ServerMeta(meta_id)])
        req1 == Req("meta/movie", meta_id, 0, ok1)
        req2 == Req("stream/movie", meta_id, 0, ok2)
    IN  IF meta_detail.k = "doc" /\ meta_detail.has_meta
        THEN LET stream_data ==
                     fetch_json([ok |-> ok2, doc |-> ServerStreams(meta_id)])
             IN  [entries |->
                      IF stream_data.k = "raise" THEN <<>>
                      ELSE UrlEntries(meta_detail.meta, "movie",
                                      StreamsOf(stream_data)).entries,
                  reqs |-> <<req1, req2>>]
        ELSE [entries |-> <<>>, reqs |-> <<req1>>]

\* for video in item['videos'] (lines 190-200), oks the outcome of each
\* video's stream fetch.  An exception ends the loop.
RECURSIVE VideoLoop(_, _, _)
VideoLoop(it, videos, oks) ==
    IF videos = <<>> THEN [raised |-> FALSE, entries |-> <<>>, reqs |-> <<>>]
    ELSE IF ~Head(videos).dict
         THEN [raised |-> TRUE, entries |-> <<>>, reqs |-> <<>>]
    ELSE IF ~Truthy(Head(videos).id) THEN VideoLoop(it, Tail(videos), Tail(oks))
    ELSE LET video_id == Key(Head(videos).id)
             stream_data ==
                 fetch_json([ok |-> Head(oks), doc |-> ServerStreams(video_id)])
             req == Req("stream/series", video_id, 0, Head(oks))
             own == IF stream_data.k = "raise" THEN Raised
                    ELSE UrlEntries(it, "series", StreamsOf(stream_data))
         IN  IF own.raised
             THEN [raised |-> TRUE, entries |-> own.entries, reqs |-> <<req>>]
             ELSE LET rest == VideoLoop(it, Tail(videos), Tail(oks))
                  IN  [raised |-> rest.raised,
                       entries |-> own.entries \o rest.entries,
                       reqs |-> <<req>> \o rest.reqs]

\* The try block of the series adapter (lines 181-202) for one reference with a
\* truthy id.
SeriesTry(meta_id, ok, oks) ==
    LET meta_detail == fetch_json([ok |-> ok, doc |-> ServerMeta(meta_id)])
        req == Req("meta/series", meta_id, 0, ok)
    IN  IF meta_detail.k = "doc" /\ meta_detail.has_meta
        THEN LET r == VideoLoop(meta_detail.meta, meta_detail.meta.videos.v, oks)
             IN  [entries |-> r.entries, reqs |-> <<req>> \o r.reqs]
        ELSE [entries |-> <<>>, reqs |-> <<req>>]

\* The videos the metadata endpoint lists for a reference.
VideosOf(meta) ==
    IF meta.dict /\ Truthy(meta.id) /\ ServerMeta(Key(meta.id)).has_meta
    THEN ServerMeta(Key(meta.id)).meta.videos.v
    ELSE <<>>

----------------------------------------------------------------------------
(* Deduplicator, writer and statistics *)

\* DedupLoop gone wrong: membership tested on the whole (extinf, url) pair.
RECURSIVE DedupLoop_ByPair(_, _, _)
DedupLoop_ByPair(entries, seen_urls, unique) ==
    IF entries = <<>> THEN unique
    ELSE IF <<Head(entries)[1], Head(entries)[2]>> \notin seen_urls
         THEN DedupLoop_ByPair(Tail(entries),
                               seen_urls \cup {<<Head(entries)[1], Head(entries)[2]>>},
                               Append(unique, Head(entries)))
         ELSE DedupLoop_ByPair(Tail(entries), seen_urls, unique)

\* The loop of lines 211-216.
RECURSIVE DedupLoop(_, _, _)
DedupLoop(entries, seen_urls, unique) ==
    IF entries = <<>> THEN unique
    ELSE IF Head(entries)[2] \notin seen_urls
         THEN DedupLoop(Tail(entries), seen_urls \cup {Head(entries)[2]},
                        Append(unique, Head(entries)))
         ELSE DedupLoop(Tail(entries), seen_urls, unique)

\* What lines 226-229 write.
FileText(entries) ==
    <<"#EXTM3U", "\n">>
    \o Flatten([i \in 1..Len(entries) |->
                    entries[i][1] \o <<"\n">> \o entries[i][2] \o <<"\n">>])

\* sum(1 for e, _ in unique_entries if needle in e)
CountContaining(entries, needle) ==
    Cardinality({i \in 1..Len(entries) : Contains(entries[i][1], needle)})

\* The numbers printed by lines 240-243.
Statistics(entries) ==
    LET with_tmdb == CountContaining(entries, <<"tvg-id=\"">>)
    IN  [total |-> Len(entries),
         movies |-> CountContaining(entries, <<"group-title=\"", "Movies", "\"">>),
         series |-> CountContaining(entries, <<"group-title=\"", "Series", "\"">>),
         with_tmdb |-> with_tmdb,
         pct |-> IF entries # <<>> THEN (with_tmdb * 100) \div Len(entries) ELSE 0]

----------------------------------------------------------------------------
(* The runs of main() *)

World(baubau, movie_pages, series_pages) ==
    [baubau |-> baubau, movie_pages |-> movie_pages, series_pages |-> series_pages]

\* Static catalogs of every shape, beside empty paginated catalogs.
StaticWorlds ==
    { World(BaubauDoc(m, s), <<>>, <<>>) :
          m \in SeqUpTo(BaubauItems, MaxItems), s \in BaubauSeriesLists }

MovieWorlds ==
    { World(EmptyBaubau, p, <<>>) : p \in SeqUpTo(MoviePages, MaxPages) }

SeriesWorlds ==
    { World(EmptyBaubau, <<>>, p) : p \in SeqUpTo(SeriesPages, MaxPages) }

\* All three sources filled, with urls shared across them.
MixedWorlds ==
    { World(BaubauDoc(m, s), <<Page(<<Ref("m2"), Ref("m1")>>)>>, <<Page(<<Ref("s1")>>)>>) :
          m \in { <<BaubauItem(P_tt, Cat("KLASICI"), List(<<Url("u2"), Url("u4")>>))>>,
                  <<BaubauItem(P_poster, Cat("KLASICI"), List(<<Url("u5")>>)),
                    BaubauItem(P_plain, Cat("KLASICI"), List(<<Url("u5"), Url("u1")>>))>> },
          s \in BaubauSeriesLists }

Worlds == StaticWorlds \cup MovieWorlds \cup SeriesWorlds \cup MixedWorlds

NoStats == [total |-> 0, movies |-> 0, series |-> 0, with_tmdb |-> 0, pct |-> 0]
NoLast == [kind |-> "none", meta |-> NoIdRef, ok |-> FALSE, oks |-> <<>>,
           reqs |-> <<>>, appended |-> <<>>]
NotCalled == [raised |-> FALSE, parts |-> <<>>, text |-> <<>>]

MainStart(w, at) ==
    /\ world = w
    /\ pc = at
    /\ all_entries = <<>>
    /\ movie_count = 0
    /\ series_count = 0
    /\ domaci_movie_count = 0
    /\ domaci_series_count = 0
    /\ skip = 0
    /\ metas = <<>>
    /\ pos = 0
    /\ unique_entries = <<>>
    /\ file = <<>>
    /\ stats = NoStats
    /\ requests = <<>>
    /\ last = NoLast

Init ==
    /\ \E w \in Worlds : MainStart(w, "start")
    /\ item = P_plain
    /\ content_type = "movie"
    /\ extinf = NotCalled

Crash ==
    /\ pc' = "crashed"
    /\ UNCHANGED <<all_entries, movie_count, series_count, domaci_movie_count,
                   domaci_series_count, skip, metas, pos, last>>

\* Lines 68-113: fetch the static catalog and walk its two collections.
LoadBaubau ==
    /\ pc = "start"
    /\ \E ok \in BOOLEAN :
         LET baubau_data == fetch_json([ok |-> ok, doc |-> world.baubau])
             m == IF baubau_data.k = "doc" THEN MoviesLoop(baubau_data.movies)
                  ELSE [raised |-> baubau_data.k = "raise", entries |-> <<>>, count |-> 0]
             s == IF baubau_data.k = "doc" /\ ~m.raised
                  THEN SeriesLoop(baubau_data.series)
                  ELSE [raised |-> FALSE, entries |-> <<>>, count |-> 0]
         IN  /\ requests' = Append(requests, Req("baubau", "", 0, ok))
             /\ IF m.raised \/ s.raised THEN Crash
                ELSE /\ pc' = "movies"
                     /\ all_entries' = all_entries \o m.entries \o s.entries
                     /\ movie_count' = m.count
                     /\ series_count' = s.count
                     /\ domaci_movie_count' = 0
                     /\ skip' = 0
                     /\ UNCHANGED <<domaci_series_count, metas, pos, last>>
    /\ UNCHANGED <<world, unique_entries, file, stats, extinf_vars>>

\* Lines 120-131: one catalog request of the movie adapter and the loop's exit test.
FetchMoviesPage ==
    /\ pc = "movies"
    /\ \E ok \in BOOLEAN :
         LET domaci_movies ==
                 fetch_json([ok |-> ok, doc |-> ServerPage(world.movie_pages, skip)])
         IN  /\ requests' = Append(requests, Req("catalog/movie", "", skip, ok))
             /\ IF domaci_movies.k = "raise" THEN Crash
                ELSE IF ~HasMetas(domaci_movies)
                THEN /\ pc' = "series"
                     /\ skip' = 0
                     /\ domaci_series_count' = 0
                     /\ last' = NoLast
                     /\ UNCHANGED <<all_entries, movie_count, series_count,
                                    domaci_movie_count, metas, pos>>
                ELSE /\ pc' = "movie_items"
                     /\ metas' = domaci_movies.metas
                     /\ pos' = 1
                     /\ domaci_movie_count' = domaci_movie_count + Len(domaci_movies.metas)
                     /\ last' = NoLast
                     /\ UNCHANGED <<all_entries, movie_count, series_count,
                                    domaci_series_count, skip>>
    /\ UNCHANGED <<world, unique_entries, file, stats, extinf_vars>>

\* Advance gone wrong: the cursor moved by the number of items of the page.
Advance_ByLen(back) ==
    IF pos = Len(metas)
    THEN pc' = back /\ skip' = skip + Len(metas) /\ pos' = 0 /\ metas' = <<>>
    ELSE pc' = pc /\ skip' = skip /\ pos' = pos + 1 /\ metas' = metas

\* Leaving `for meta in metas` after its last element: skip += 100.
Advance(back) ==
    IF pos = Len(metas)
    THEN pc' = back /\ skip' = skip + PageSize /\ pos' = 0 /\ metas' = <<>>
    ELSE pc' = pc /\ skip' = skip /\ pos' = pos + 1 /\ metas' = metas

\* Lines 133-154: one element of `for meta in metas` of the movie adapter.
MovieItem ==
    /\ pc = "movie_items"
    /\ \E ok1, ok2 \in BOOLEAN :
         LET meta == metas[pos]
         IN  IF ~meta.dict
             THEN Crash /\ UNCHANGED requests
             ELSE LET r == IF Truthy(meta.id) THEN MovieTry(Key(meta.id), ok1, ok2)
                           ELSE [entries |-> <<>>, reqs |-> <<>>]
                  IN  /\ all_entries' = all_entries \o r.entries
                      /\ last' = [kind |-> "movie", meta |-> meta, ok |-> ok1,
                                  oks |-> <<ok2>>, reqs |-> r.reqs,
                                  appended |-> r.entries]
                      /\ Advance("movies")
                      /\ UNCHANGED <<movie_count, series_count, domaci_movie_count,
                                     domaci_series_count, requests>>
    /\ UNCHANGED <<world, unique_entries, file, stats, extinf_vars>>

\* Lines 165-176: one catalog request of the series adapter and the loop's exit test.
FetchSeriesPage ==
    /\ pc = "series"
    /\ \E ok \in BOOLEAN :
         LET domaci_series ==
                 fetch_json([ok |-> ok, doc |-> ServerPage(world.series_pages, skip)])
         IN  /\ requests' = Append(requests, Req("catalog/series", "", skip, ok))
             /\ IF domaci_series.k = "raise" THEN Crash
                ELSE IF ~HasMetas(domaci_series)
                THEN /\ pc' = "dedup"
                     /\ last' = NoLast
                     /\ UNCHANGED <<all_entries, movie_count, series_count,
                                    domaci_movie_count, domaci_series_count, skip,
                                    metas, pos>>
                ELSE /\ pc' = "series_items"
                     /\ metas' = domaci_series.metas
                     /\ pos' = 1
                     /\ domaci_series_count' = domaci_series_count + Len(domaci_series.metas)
                     /\ last' = NoLast
                     /\ UNCHANGED <<all_entries, movie_count, series_count,
                                    domaci_movie_count, skip>>
    /\ UNCHANGED <<world, unique_entries, file, stats, extinf_vars>>

\* Lines 178-202: one element of `for meta in metas` of the series adapter.
SeriesItem ==
    /\ pc = "series_items"
    /\ \E ok \in BOOLEAN :
       \E oks \in [1..Len(VideosOf(metas[pos])) -> BOOLEAN] :
         LET meta == metas[pos]
         IN  IF ~meta.dict
             THEN Crash /\ UNCHANGED requests
             ELSE LET r == IF Truthy(meta.id) THEN SeriesTry(Key(meta.id), ok, oks)
                           ELSE [entries |-> <<>>, reqs |-> <<>>]
                  IN  /\ all_entries' = all_entries \o r.entries
                      /\ last' = [kind |-> "series", meta |-> meta, ok |-> ok,
                                  oks |-> oks, reqs |-> r.reqs,
                                  appended |-> r.entries]
                      /\ Advance("series")
                      /\ UNCHANGED <<movie_count, series_count, domaci_movie_count,
                                     domaci_series_count, requests>>
    /\ UNCHANGED <<world, unique_entries, file, stats, extinf_vars>>

\* Lines 211-216.
Dedup ==
    /\ pc = "dedup"
    /\ unique_entries' = DedupLoop(all_entries, {}, <<>>)
    /\ pc' = "write"
    /\ UNCHANGED <<world, all_entries, movie_count, series_count, domaci_movie_count,
                   domaci_series_count, skip, metas, pos, file, stats, requests,
                   last, extinf_vars>>

\* Lines 225-229.
WriteFile ==
    /\ pc = "write"
    /\ file' = FileText(unique_entries)
    /\ pc' = "stats"
    /\ UNCHANGED <<world, all_entries, movie_count, series_count, domaci_movie_count,
                   domaci_series_count, skip, metas, pos, unique_entries, stats,
                   requests, last, extinf_vars>>

\* Lines 232-243.
Summary ==
    /\ pc = "stats"
    /\ stats' = Statistics(unique_entries)
    /\ pc' = "done"
    /\ UNCHANGED <<world, all_entries, movie_count, series_count, domaci_movie_count,
                   domaci_series_count, skip, metas, pos, unique_entries, file,
                   requests, last, extinf_vars>>

Next ==
    \/ LoadBaubau
    \/ FetchMoviesPage
    \/ MovieItem
    \/ FetchSeriesPage
    \/ SeriesItem
    \/ Dedup
    \/ WriteFile
    \/ Summary

Spec == Init /\ [][Next]_vars

----------------------------------------------------------------------------
(* create_extinf on its own: one call on an item drawn from the domain below *)

IdValues ==
    {Absent, Null, Num(<<"7">>)} \cup {Str(s) : s \in SeqUpTo({"t", "1"}, MaxIdLen)}

PosterValues ==
    { Absent,
      Str(<<>>),
      Str(<<"http://", "tmdb.org", "/", "5", ".jpg">>),
      Str(<<"http://", "tmdb.org", "/", "p", "/", "5", "0", "0", ".jpg">>),
      Str(<<"http://", "x.org", "/", "5", ".jpg">>),
      Str(<<"http://", "tmdb.org", "/", "5", ".png">>),
      Str(<<"http://", "tmdb.org", "/", "a", ".jpg">>) }

NameValues == {Absent, Null, Str(<<>>), Str(<<"A">>)}

YearValues == {Absent, Str(<<>>), Str(<<"1999">>), Num(<<"2001">>)}

InitExtinf ==
    /\ \E i \in IdValues, p \in PosterValues, n \in NameValues, y \in YearValues :
           item = [id |-> i, name |-> n, poster |-> p, year |-> y]
    /\ content_type \in {"movie", "series"}
    /\ extinf = NotCalled
    /\ MainStart(World(EmptyBaubau, <<>>, <<>>), "idle")

CallCreateExtinf ==
    /\ extinf = NotCalled
    /\ extinf' = create_extinf(item, content_type)
    /\ UNCHANGED <<item, content_type, main_vars>>

NextExtinf == CallCreateExtinf

SpecExtinf == InitExtinf /\ [][NextExtinf]_vars

Called == extinf # NotCalled

\* The parts of a built header that open with the given field name.
Fields(parts, name) == {i \in 1..Len(parts) : parts[i][1] = name}

----------------------------------------------------------------------------
(* C7 *)

\* The external id the claim resolves for an item: (a) a purely numeric
\* identifier as it is, an identifier that begins with "tt" without its first
\* two characters; else (b) the numeric stem of the poster's file name, the
\* poster being on the metadata-image host; else none (<<>>).
C7_FromIdentifier(it) ==
    IF it.id.k # "str" THEN <<>>
    ELSE IF isdigit(it.id.s) THEN it.id.s
    ELSE IF startswith(it.id.s, <<"t", "t">>) THEN SubSeq(it.id.s, 3, Len(it.id.s))
    ELSE <<>>

C7_FromPoster(it) ==
    IF it.poster.k = "str" /\ Contains(it.poster.s, <<"tmdb.org">>)
    THEN LET s == it.poster.s
             slashes == {i \in 1..Len(s) : s[i] = "/"}
         IN  IF slashes = {} \/ s[Len(s)] # ".jpg" THEN <<>>
             ELSE LET l == CHOOSE i \in slashes : \A j \in slashes : j <= i
                  IN  IF isdigit(SubSeq(s, l + 1, Len(s) - 1))
                      THEN SubSeq(s, l + 1, Len(s) - 1) ELSE <<>>
    ELSE <<>>

C7_Claimed(it) ==
    IF C7_FromIdentifier(it) # <<>> THEN C7_FromIdentifier(it) ELSE C7_FromPoster(it)

\* C7: in every built header the tvg-id field carries the identifier resolved
\* in the claim's order (numeric identifier as it is, "tt" identifier with the
\* leading prefix stripped, else the poster's numeric file stem), and is left
\* out, never emitted empty, when neither yields one.  (An identifier that is
\* exactly "tt" strips to nothing; either reading of that case is accepted.)
C7_ExternalIdResolution ==
    (Called /\ ~extinf.raised /\ item.id # Str(<<"t", "t">>)) =>
        /\ \A i \in Fields(extinf.parts, "tvg-id=\"") :
               extinf.parts[i] # <<"tvg-id=\"", "\"">>
        /\ {extinf.parts[i] : i \in Fields(extinf.parts, "tvg-id=\"")}
               = (IF C7_Claimed(item) = <<>> THEN {}
                  ELSE {<<"tvg-id=\"">> \o C7_Claimed(item) \o <<"\"">>})

----------------------------------------------------------------------------
(* C8 *)

\* The display name of the claim: the name when present and non-empty, the
\* placeholder when absent or empty.
C8_Name(it) == IF it.name.k = "str" /\ it.name.s # <<>> THEN it.name.s ELSE <<"Unknown">>

C8_Title(it) ==
    IF it.year.k \in {"str", "num"} /\ it.year.s # <<>>
    THEN C8_Name(it) \o <<" (">> \o it.year.s \o <<")">>
    ELSE C8_Name(it)

\* C8: every built header has exactly one tvg-name field, holding the item's
\* name, or "Unknown" when the name is absent or empty, and ends with ", " and
\* the same value, followed by " (year)" exactly when a non-empty year is present.
C8_DisplayName ==
    (Called /\ ~extinf.raised /\ item.name.k \in {"absent", "str"}) =>
        /\ {extinf.parts[i] : i \in Fields(extinf.parts, "tvg-name=\"")}
               = {<<"tvg-name=\"">> \o C8_Name(item) \o <<"\"">>}
        /\ extinf.text = Join(extinf.parts, <<" ">>) \o <<", ">> \o C8_Title(item)

----------------------------------------------------------------------------
(* Notions the claims about the runs of main() share *)

Range(seq) == {seq[i] : i \in 1..Len(seq)}

IsPrefix(a, b) == Len(a) <= Len(b) /\ SubSeq(b, 1, Len(a)) = a

\* The (extinf, url) pairs of a list of entries.
Pairs(entries) == [i \in 1..Len(entries) |-> <<entries[i][1], entries[i][2]>>]

\* The requests of the log made to one endpoint.
Select(kind) == LET Test(r) == r.kind = kind IN SelectSeq(requests, Test)

AfterSeries == pc \in {"dedup", "write", "stats", "done"}
AfterMovies == pc \in {"series", "series_items"} \/ AfterSeries

\* The stage of main() a position belongs to.
Rank(p) ==
    CASE p \in {"movies", "movie_items"} -> 1
      [] p \in {"series", "series_items"} -> 2
      [] p = "dedup" -> 3
      [] p = "write" -> 4
      [] p = "stats" -> 5
      [] p = "done" -> 6
      [] p = "crashed" -> 7
      [] OTHER -> 0

----------------------------------------------------------------------------
(* C1 *)

\* The positions of all_entries that hold the first occurrence of their url.
C1_First ==
    {j \in 1..Len(all_entries) :
         \A k \in 1..(j - 1) : all_entries[k][2] # all_entries[j][2]}

C1_Deduplicated ==
    AfterSeries /\ pc # "dedup" =>
        /\ Len(unique_entries) = Cardinality(C1_First)
        /\ \A i \in 1..Len(unique_entries) :
               \E j \in C1_First :
                   /\ unique_entries[i] = all_entries[j]
                   /\ Cardinality({k \in C1_First : k < j}) = i - 1
        /\ \A i, j \in 1..Len(unique_entries) :
               unique_entries[i][2] = unique_entries[j][2] => i = j
        /\ {e[2] : e \in Range(unique_entries)} = {e[2] : e \in Range(all_entries)}

\* Entries are only ever appended, by the three sources in turn, each page
\* cursor never moving back within its source.
C1_Aggregated ==
    /\ IsPrefix(all_entries, all_entries')
    /\ Rank(pc') >= Rank(pc)
    /\ all_entries' # all_entries => Rank(pc) <= 2
    /\ Rank(pc') = Rank(pc) => skip' >= skip

\* C1: the deduplicated sequence is the subsequence of the aggregated sequence
\* that keeps exactly the first occurrence of each distinct url, whatever the
\* header: no url twice, every aggregated url once, in first-seen order; and
\* the aggregated sequence grows by appending only, source 1, then source 2
\* page by page, then source 3 page by page.
C1_FirstOccurrenceDedup == [](C1_Deduplicated) /\ [][C1_Aggregated]_vars

\* Two sources gave the same url under different headers and the later pair
\* was dropped.
C1_Witness ==
    /\ pc = "done"
    /\ Len(unique_entries) < Len(all_entries)
    /\ \E i, j \in 1..Len(all_entries) :
           /\ i < j
           /\ all_entries[i][2] = all_entries[j][2]
           /\ all_entries[i][1] # all_entries[j][1]
           /\ all_entries[i][3].group # all_entries[j][3].group

----------------------------------------------------------------------------
(* C2 *)

\* A page with a metas collection that is present and not empty.
C2_HasItems(page) == page.has_metas /\ Len(page.metas) > 0

RECURSIVE C2_Items(_, _)
C2_Items(pages, n) ==
    IF n = 0 THEN 0
    ELSE C2_Items(pages, n - 1) + Len(ServerPage(pages, 100 * (n - 1)).metas)

\* The cursor of the i-th catalog request is 100 * (i - 1).
C2_Cursor(kind) ==
    \A i \in 1..Len(Select(kind)) : Select(kind)[i].skip = 100 * (i - 1)

\* The claim as stated: the loop has ended at the first page whose metas is
\* absent or empty, and for no other reason.
C2_Stated(kind, pages, count) ==
    LET R == Select(kind)
    IN  /\ Len(R) >= 1
        /\ \A i \in 1..(Len(R) - 1) : C2_HasItems(ServerPage(pages, R[i].skip))
        /\ ~C2_HasItems(ServerPage(pages, R[Len(R)].skip))
        /\ count = C2_Items(pages, Len(R) - 1)

\* The claim as amended: the loop has ended at the first page whose fetch
\* failed or whose metas is absent or empty.
C2_Amended(kind, pages, count) ==
    LET R == Select(kind)
    IN  /\ Len(R) >= 1
        /\ \A i \in 1..(Len(R) - 1) :
               R[i].ok /\ C2_HasItems(ServerPage(pages, R[i].skip))
        /\ ~R[Len(R)].ok \/ ~C2_HasItems(ServerPage(pages, R[Len(R)].skip))
        /\ count = C2_Items(pages, Len(R) - 1)

\* C2 as stated: in both paginated adapters skip starts at 0 and grows by 100
\* per request, and the loop ends at the first page whose metas collection is
\* absent or empty and for no other reason, every item of the earlier pages
\* counted.
C2_StopsOnlyAtEmptyPage ==
    /\ C2_Cursor("catalog/movie")
    /\ C2_Cursor("catalog/series")
    /\ AfterMovies => C2_Stated("catalog/movie", world.movie_pages, domaci_movie_count)
    /\ AfterSeries => C2_Stated("catalog/series", world.series_pages, domaci_series_count)

\* C2 as amended: in both paginated adapters skip starts at 0 and grows by 100
\* per request, and the loop ends at the first page whose fetch fails or whose
\* metas collection is absent or empty, and for no other reason (no page cap);
\* no page is requested after it and every item of the earlier pages is counted.
C2_StopsAtFirstEmptyOrFailedPage ==
    /\ C2_Cursor("catalog/movie")
    /\ C2_Cursor("catalog/series")
    /\ AfterMovies => C2_Amended("catalog/movie", world.movie_pages, domaci_movie_count)
    /\ AfterSeries => C2_Amended("catalog/series", world.series_pages, domaci_series_count)

\* Page 1 returned fifty items, page 2 an empty metas list: fifty items
\* counted, two catalog requests made.
C2_Witness ==
    /\ pc = "series"
    /\ domaci_movie_count = 50
    /\ Len(Select("catalog/movie")) = 2
    /\ Select("catalog/movie")[2].ok
    /\ Select("catalog/movie")[2].skip = 100

----------------------------------------------------------------------------
(* C3 *)

\* Documents of the shapes the upstream services document: every record a
\* JSON object, identifiers strings, every stream record carrying a url.
C3_StreamOk(st) == st.dict /\ st.url.k = "str"

C3_ItemOk(it) ==
    /\ it.id.k \in {"absent", "str"}
    /\ \A st \in Range(it.streams.v) : C3_StreamOk(st)

C3_StreamsOk(id) == \A st \in Range(ServerStreams(id).streams) : C3_StreamOk(st)

C3_RefOk(ref) ==
    /\ ref.dict
    /\ ref.id.k \in {"absent", "str"}
    /\ Truthy(ref.id) =>
           /\ ServerMeta(Key(ref.id)).meta.id.k \in {"absent", "str"}
           /\ C3_StreamsOk(Key(ref.id))
           /\ \A v \in Range(ServerMeta(Key(ref.id)).meta.videos.v) :
                  v.dict /\ (Truthy(v.id) => C3_StreamsOk(Key(v.id)))

C3_WellFormed(w) ==
    /\ \A it \in Range(w.baubau.movies) \cup Range(w.baubau.series) : C3_ItemOk(it)
    /\ \A page \in Range(w.movie_pages) \cup Range(w.series_pages) :
           \A ref \in Range(page.metas) : C3_RefOk(ref)

\* C3: over well-formed documents and whatever fetches fail, no exception
\* leaves fetch_json: the run never aborts, always has a next step until it is
\* done, each paginated loop stays within its catalog, a failed static fetch
\* leaves source 1 with no entry and no counted item, no catalog URL is
\* requested twice, a failed page request is the last of its loop, and an item
\* whose metadata fetch failed made that one request and appended nothing.
C3_FetchFailureIsAbsence ==
    C3_WellFormed(world) =>
        /\ pc # "crashed"
        /\ pc # "done" => ENABLED Next
        /\ pc \in {"movies", "movie_items"} =>
               skip <= PageSize * Len(world.movie_pages)
        /\ pc \in {"series", "series_items"} =>
               skip <= PageSize * Len(world.series_pages)
        /\ (pc # "start" /\ ~requests[1].ok) =>
               /\ movie_count = 0 /\ series_count = 0
               /\ Len(requests) = 1 => all_entries = <<>>
        /\ \A i, j \in 1..Len(requests) :
               (requests[i].kind = requests[j].kind
                    /\ requests[i].skip = requests[j].skip) => i = j
        /\ \A i, j \in 1..Len(requests) :
               (i < j /\ ~requests[i].ok) => requests[j].kind # requests[i].kind
        /\ (last.reqs # <<>> /\ ~last.reqs[1].ok) =>
               Len(last.reqs) = 1 /\ last.appended = <<>>
        /\ Len(last.reqs) <= 1 + Len(last.oks)

\* The static catalog could not be fetched, and the run ended with entries of
\* the other sources written.
C3_Witness ==
    /\ C3_WellFormed(world)
    /\ pc = "done"
    /\ ~requests[1].ok
    /\ \E r \in Range(requests) : r.kind = "catalog/series" /\ r.skip > 0
    /\ unique_entries # <<>>
    /\ file # <<>>

----------------------------------------------------------------------------
(* C4 *)

\* C4: whatever field is missing or malformed in a fetched document, the run
\* never aborts and the output file is written.
C4_MalformedFieldNeverAborts ==
    /\ pc # "crashed"
    /\ pc \in {"stats", "done"} => file # <<>>

----------------------------------------------------------------------------
(* C5 *)

\* An episode whose own processing meets no error: an object with an
\* identifier, its stream list fetched, every stream record an object.
C5_Clean(video, ok) ==
    /\ video.dict
    /\ Truthy(video.id)
    /\ ok
    /\ \A st \in Range(ServerStreams(Key(video.id)).streams) : st.dict

C5_Urls(video) ==
    {st.url.s : st \in {x \in Range(ServerStreams(Key(video.id)).streams) : Truthy(x.url)}}

\* C5: for every series whose metadata was fetched and whose header can be
\* built, every episode that meets no error of its own has one entry for each
\* of its streams with a non-empty url among the entries the series appended,
\* whatever happened to its sibling episodes.
C5_SkipScopedPerEpisode ==
    (/\ last.kind = "series"
     /\ Truthy(last.meta.id)
     /\ last.ok
     /\ ServerMeta(Key(last.meta.id)).has_meta
     /\ ~create_extinf(ServerMeta(Key(last.meta.id)).meta, "series").raised) =>
        LET it == ServerMeta(Key(last.meta.id)).meta
        IN  \A k \in 1..Len(it.videos.v) :
                C5_Clean(it.videos.v[k], last.oks[k]) =>
                    \A u \in C5_Urls(it.videos.v[k]) :
                        <<create_extinf(it, "series").text, u>>
                            \in Range(Pairs(last.appended))

----------------------------------------------------------------------------
(* C6 *)

C6_Listed(it) == it.category.k = "str" /\ it.category.s \in domestic_categories

\* What the claim has an item contribute: nothing when it is a movie whose
\* category is not listed, else one pair per stream, in stream order, all
\* under the header built from the item.
C6_Contribution(it, ctype) ==
    IF (ctype = "movie" /\ ~C6_Listed(it)) \/ it.streams.k # "list" THEN <<>>
    ELSE [i \in 1..Len(it.streams.v) |->
              <<create_extinf(it, ctype).text, it.streams.v[i].url.s>>]

C6_Counted(items, ctype) ==
    Cardinality({i \in 1..Len(items) : C6_Contribution(items[i], ctype) # <<>>})

\* C6: right after the static catalog was fetched and walked, the aggregated
\* sequence is the concatenation, movies first, of what each item contributes:
\* nothing for a movie whose category is missing or not exactly a listed
\* label, nothing for an item with absent or empty streams, else one entry per
\* stream in order under the item's one header; and the two counters count
\* exactly the items that contributed.
C6_StaticCatalogEntries ==
    (pc = "movies" /\ Len(requests) = 1 /\ requests[1].ok) =>
        /\ Pairs(all_entries) =
               Flatten([i \in 1..Len(world.baubau.movies) |->
                            C6_Contribution(world.baubau.movies[i], "movie")])
               \o Flatten([i \in 1..Len(world.baubau.series) |->
                               C6_Contribution(world.baubau.series[i], "series")])
        /\ movie_count = C6_Counted(world.baubau.movies, "movie")
        /\ series_count = C6_Counted(world.baubau.series, "series")

\* A listed movie with two streams gave two entries under one header, beside a
\* movie whose category is not listed and a series item kept without one.
C6_Witness ==
    /\ pc = "movies" /\ Len(requests) = 1 /\ requests[1].ok
    /\ Len(world.baubau.movies) = 2
    /\ world.baubau.movies[1].category = Cat("EX YU FILMOVI")
    /\ world.baubau.movies[2].category = Cat("Drugo")
    /\ HasStreams(world.baubau.movies[2])
    /\ Len(world.baubau.series) = 1
    /\ Len(all_entries) = 4
    /\ all_entries[1][1] = all_entries[2][1]
    /\ all_entries[1][2] # all_entries[2][2]
    /\ movie_count = 1
    /\ series_count = 1

----------------------------------------------------------------------------
(* C9 *)

\* The lines of a text that ends each line with a line break.
RECURSIVE Lines(_)
Lines(text) ==
    IF text = <<>> THEN <<>>
    ELSE LET breaks == {i \in 1..Len(text) : text[i] = "\n"}
             n == IF breaks = {} THEN Len(text) + 1
                  ELSE CHOOSE i \in breaks : \A j \in breaks : i <= j
         IN  <<SubSeq(text, 1, n - 1)>> \o Lines(SubSeq(text, n + 1, Len(text)))

\* C9: the written file is the marker line and then, for each retained entry
\* in order, one header line that begins with #EXTINF:-1 and one url line:
\* 1 + 2n lines, every url on exactly one line, right after its header.
C9_FileLayout ==
    pc \in {"stats", "done"} =>
        LET L == Lines(file)
            n == Len(unique_entries)
        IN  /\ Len(L) = 1 + 2 * n
            /\ L[1] = <<"#EXTM3U">>
            /\ \A i \in 1..n :
                   /\ L[2 * i] = unique_entries[i][1]
                   /\ L[2 * i][1] = "#EXTINF:-1"
                   /\ L[2 * i + 1] = unique_entries[i][2]
                   /\ Cardinality({j \in 1..Len(L) : L[j] = unique_entries[i][2]}) = 1

----------------------------------------------------------------------------
(* C10 *)

C10_Count(Test(_)) == Cardinality({i \in 1..Len(unique_entries) : Test(unique_entries[i])})

C10_IsMovie(e) == e[3].group = "Movies"
C10_IsSeries(e) == e[3].group = "Series"
C10_HasId(e) == e[3].tvg

\* C10: the summary reports the number of retained entries, the number whose
\* grouping field is Movies, the number whose grouping field is Series (the
\* two adding up to the total), the number whose header carries a tvg-id
\* field, and that number as a floored percentage of the total, 0 for no entry.
C10_Summary ==
    pc = "done" =>
        /\ stats.total = Len(unique_entries)
        /\ stats.movies = C10_Count(C10_IsMovie)
        /\ stats.series = C10_Count(C10_IsSeries)
        /\ stats.movies + stats.series = stats.total
        /\ stats.with_tmdb = C10_Count(C10_HasId)
        /\ stats.total = 0 => stats.pct = 0
        /\ stats.total > 0 =>
               /\ stats.pct * stats.total <= stats.with_tmdb * 100
               /\ stats.with_tmdb * 100 < (stats.pct + 1) * stats.total

====
